---- MODULE Spec2Model ----
(***************************************************************************)
(* AI Agent Directory (src/main.py): a pay-per-call directory whose         *)
(* /register and /search handlers are gated by an x402 payment proof.       *)
(*                                                                          *)
(* The store is the SQLite file: the agents table and the transactions      *)
(* ledger.  Every `with get_db()` block opens a connection of its own and   *)
(* commits when it ends, so each block is one atomic step on the store; a   *)
(* handler is its verification step followed by such steps.  The steps of   *)
(* different requests interleave freely: the file is shared by whatever     *)
(* workers serve the app, and a request may stop between two steps.  Store  *)
(* faults (a locked or full database) are not modelled.                     *)
(*                                                                          *)
(* Text values are sequences of one-character strings so that strip() and   *)
(* LIKE are computed, not assumed.  Timestamps are not modelled; amounts    *)
(* are in hundredths of a USDC; the long dash of the two description        *)
(* strings is written "-".                                                  *)
(***************************************************************************)
EXTENDS Integers, Sequences, FiniteSets, TLC

\* ---------------------------------------------------------------- bounds
MaxRequests == 2

Reqs == 1..MaxRequests

\* ---------------------------------------------------------- configuration
NETWORK_ID == "8453"
WALLET_ADDRESS == "0x0F330101B2eA5347AEBAF4257eE46e1355d2F953"
USDC_CONTRACT == "0x833589fCD6eDb6E08f4c7C32D4f71b54bdA02913"
REGISTER_PRICE == 500000
SEARCH_PRICE == 10000
HOST == "https://agent-directory.life.conway.tech"

\* amount_usdc as written by the handlers, in hundredths of a USDC
\* (0.50 and 0.01 in the source).
REGISTER_AMOUNT == 50
SEARCH_AMOUNT == 1

\* ------------------------------------------------------------ text values
Whitespace == {" ", "\t"}

RECURSIVE lstrip(_)
lstrip(s) ==
  IF s = <<>> THEN s
  ELSE IF Head(s) \in Whitespace THEN lstrip(Tail(s)) ELSE s

RECURSIVE rstrip(_)
rstrip(s) ==
  IF s = <<>> THEN s
  ELSE IF s[Len(s)] \in Whitespace THEN rstrip(SubSeq(s, 1, Len(s) - 1)) ELSE s

\* Variant of strip: only the leading whitespace is removed.
strip_left_only(s) == lstrip(s)

\* str.strip()
strip(s) == rstrip(lstrip(s))

\* A JSON value of a request body field: a string, null, or the key absent.
Str(s) == [t |-> "str", v |-> s]
Null == [t |-> "null", v |-> <<>>]
Absent == [t |-> "absent", v |-> <<>>]

\* ------------------------------------------------------------ x402 helpers
build_requirements(resource_url, amount, description) ==
  [ version |-> "1",
    scheme |-> "exact",
    networkId |-> NETWORK_ID,
    maxAmountRequired |-> ToString(amount),
    resource |-> resource_url,
    description |-> description,
    mimeType |-> "application/json",
    payTo |-> WALLET_ADDRESS,
    maxTimeoutSeconds |-> 300,
    asset |-> USDC_CONTRACT,
    extra |-> [name |-> "USDC", version |-> "2"] ]

\* base64 of the JSON text of the requirements: the value is kept under the
\* two encodings that a client undoes.
requirements_header(requirements) ==
  [encoding |-> "base64", of |-> [encoding |-> "json", of |-> requirements]]

NoHeader == [encoding |-> "none"]

\* The requirements each gated handler builds (lines 118-120, 172-174);
\* str(request.url.path) is the path of the route that matched.
register_requirements ==
  build_requirements(HOST \o "/register", REGISTER_PRICE,
                     "Register agent in AI Directory - 0.50 USDC")

search_requirements ==
  build_requirements(HOST \o "/search", SEARCH_PRICE,
                     "Search AI Agent Directory - 0.01 USDC")

\* ------------------------------------------------- the facilitator's answer
\* What requests.post(...) and resp.json() can produce for one call.  The POST
\* carries timeout=10: a facilitator that does not answer makes it raise
\* requests.Timeout ("timeout"); "raises" is any other network error.
NoCall == [outcome |-> "nocall", isValid |-> "absent", txHash |-> "absent"]

FacilitatorOutcomes ==
  { [outcome |-> o, isValid |-> "absent", txHash |-> "absent"] :
      o \in {"raises", "timeout", "non200", "notjson", "nonobject"} }
  \cup
  { [outcome |-> "object", isValid |-> v, txHash |-> h] :
      v \in {"absent", "true", "false"}, h \in {"absent", "0xabc"} }

\* X-PAYMENT header values: absent, present but empty, present and not
\* base64 of JSON, present and decodable.
PaymentHeaders == {"absent", "empty", "undecodable", "proof"}

\* `not payment_hdr`
no_payment_header(hdr) == hdr \in {"absent", "empty"}

\* Variant of verify_payment: a raised exception is not treated as a refusal.
verify_payment_fail_open(payment_header, fac) ==
  IF payment_header # "proof" THEN [valid |-> FALSE, tx_hash |-> ""]
  ELSE IF fac.outcome = "object"
    THEN [ valid |-> IF fac.isValid = "absent" THEN FALSE
                     ELSE fac.isValid = "true",
           tx_hash |-> IF fac.txHash = "absent" THEN "unverified"
                       ELSE fac.txHash ]
    ELSE [valid |-> fac.outcome = "raises", tx_hash |-> ""]

\* Variant of verify_payment: the reference is kept only for a valid verdict.
verify_payment_reference_if_valid(payment_header, fac) ==
  IF payment_header = "proof" /\ fac.outcome = "object" /\ fac.isValid = "true"
  THEN [ valid |-> TRUE,
         tx_hash |-> IF fac.txHash = "absent" THEN "unverified" ELSE fac.txHash ]
  ELSE [valid |-> FALSE, tx_hash |-> ""]

\* verify_payment: any exception inside the try block (decoding the header,
\* the POST, resp.json(), data.get on a non-object) and any non-200 status
\* fall through to `return False, ""`.
verify_payment(payment_header, fac) ==
  IF payment_header # "proof" THEN [valid |-> FALSE, tx_hash |-> ""]
  ELSE IF fac.outcome = "object"
    THEN [ valid |-> IF fac.isValid = "absent" THEN FALSE
                     ELSE fac.isValid = "true",
           tx_hash |-> IF fac.txHash = "absent" THEN "unverified"
                       ELSE fac.txHash ]
    ELSE [valid |-> FALSE, tx_hash |-> ""]

\* The facilitator is called only when the header decoded.
facilitator_called(payment_header) == payment_header = "proof"

\* ------------------------------------------------------------ request inputs
\* Bodies of POST /register.  shape "notjson": request.json() raises;
\* shape "nonobject": valid JSON that is not an object (body.get raises).
Body(n, d, p) ==
  [shape |-> "object", name |-> n, description |-> d, payment_endpoint |-> p]

NoBody == [shape |-> "none", name |-> Absent, description |-> Absent,
           payment_endpoint |-> Absent]

Bodies ==
  { Body(Str(<<"a">>), Str(<<"r", "b">>), Str(<<"u">>)),
    Body(Str(<<" ", "a", "\t">>), Str(<<"x">>), Str(<<" ", "u">>)),
    Body(Str(<<"b">>), Str(<<"r", "b">>), Str(<<"u">>)),
    Body(Str(<<" ">>), Str(<<"r", "b">>), Str(<<"u">>)),
    Body(Absent, Str(<<"r", "b">>), Str(<<"u">>)),
    Body(Str(<<"a">>), Str(<<>>), Str(<<"u">>)),
    Body(Str(<<"a">>), Str(<<"r", "b">>), Absent),
    Body(Null, Str(<<"r", "b">>), Str(<<"u">>)),
    [NoBody EXCEPT !.shape = "notjson"],
    [NoBody EXCEPT !.shape = "nonobject"] }

\* Values of the q parameter of GET /search.
Queries == { <<>>, <<"b">>, <<"R">>, <<"_">> }

\* Variant of name_taken: the agents table without its UNIQUE constraint.
name_taken_never(ag, name) == FALSE

\* ------------------------------------------------------------------ store
\* INSERT INTO agents: the UNIQUE constraint on name (BINARY collation)
\* raises sqlite3.IntegrityError; id is AUTOINCREMENT and no row is ever
\* deleted, so the next id is the row count plus one.
name_taken(ag, name) == \E i \in 1..Len(ag) : ag[i].name = name

\* The field request is not a column: it names the request whose handler ran
\* the INSERT, so that properties can speak of "the entry that request made".
insert_agent(ag, name, description, payment_endpoint, r) ==
  Append(ag, [ id |-> Len(ag) + 1,
               name |-> name,
               description |-> description,
               payment_endpoint |-> payment_endpoint,
               request |-> r ])

\* Variant of log_tx: INSERT OR REPLACE keyed on the endpoint, so a later
\* record of an endpoint takes the place of the latest one.
log_tx_replacing(led, endpoint, tx_hash, amount, status, r) ==
  LET rec == [ endpoint |-> endpoint, payment_hash |-> tx_hash,
               amount_usdc |-> amount, status |-> status, request |-> r ]
  IN IF led # <<>> /\ led[Len(led)].endpoint = endpoint
     THEN [led EXCEPT ![Len(led)] = rec]
     ELSE Append(led, rec)

\* log_tx: one INSERT INTO transactions in a connection of its own.  The
\* field request is not a column: it names the request whose handler made
\* the call, so that properties can speak of "that request's record".
log_tx(led, endpoint, tx_hash, amount, status, r) ==
  Append(led, [ endpoint |-> endpoint,
                payment_hash |-> tx_hash,
                amount_usdc |-> amount,
                status |-> status,
                request |-> r ])

\* SQLite LIKE: % matches any run, _ any one character, ASCII letters
\* compare without case.
lower(c) ==
  CASE c = "A" -> "a" [] c = "B" -> "b" [] c = "R" -> "r"
    [] c = "U" -> "u" [] c = "X" -> "x" [] OTHER -> c

RECURSIVE like(_, _)
like(p, s) ==
  IF p = <<>> THEN s = <<>>
  ELSE IF Head(p) = "%"
    THEN like(Tail(p), s) \/ (s # <<>> /\ like(p, Tail(s)))
    ELSE /\ s # <<>>
         /\ (Head(p) = "_" \/ lower(Head(p)) = lower(Head(s)))
         /\ like(Tail(p), Tail(s))

RECURSIVE select_agents(_, _)
select_agents(ag, q) ==
  IF ag = <<>> THEN <<>>
  ELSE LET row == Head(ag)
           pat == <<"%">> \o q \o <<"%">>
           hit == q = <<>> \/ like(pat, row.name) \/ like(pat, row.description)
           out == [ id |-> row.id, name |-> row.name,
                    description |-> row.description,
                    payment_endpoint |-> row.payment_endpoint ]
       IN (IF hit THEN <<out>> ELSE <<>>) \o select_agents(Tail(ag), q)

\* Variant of count_success: the WHERE status='success' is left out.
count_all(led) == Len(led)

RECURSIVE count_success(_)
count_success(led) ==
  IF led = <<>> THEN 0
  ELSE (IF Head(led).status = "success" THEN 1 ELSE 0) + count_success(Tail(led))

RECURSIVE sum_success(_)
sum_success(led) ==
  IF led = <<>> THEN 0
  ELSE (IF Head(led).status = "success" THEN Head(led).amount_usdc ELSE 0)
       + sum_success(Tail(led))

\* ------------------------------------------------------------------ state
VARIABLES
  agents,       \* the agents table, in id order
  ledger,       \* the transactions table, in id order
  pc,           \* where each request's handler stands
  req,          \* each request's endpoint, X-PAYMENT header and q
  facilitator,  \* what the facilitator answered to each request's call
  verdict,      \* (valid, tx_hash) as returned by verify_payment
  body,         \* the body read by request.json()
  local,        \* the handler's locals: name, description, payment_endpoint
  response,     \* the terminal response
  hist          \* history: what each request has done so far

vars == <<agents, ledger, pc, req, facilitator, verdict, body, local,
          response, hist>>

NoReq == [endpoint |-> "none", hdr |-> "absent", q |-> <<>>]
NoVerdict == [valid |-> FALSE, tx_hash |-> "none"]
NoLocal == [name |-> <<>>, description |-> <<>>, payment_endpoint |-> <<>>,
            agent_id |-> 0, rows |-> <<>>, agent_count |-> 0]
NoResponse == [status |-> 0, challenge |-> NoHeader, content |-> [none |-> TRUE]]
NoHist == [ verified |-> FALSE,   \* verify_payment has returned
            fac_calls |-> 0,      \* POSTs to the facilitator
            ops |-> 0,            \* INSERT INTO agents / SELECT FROM agents run
            logs |-> 0,           \* log_tx calls
            sent |-> [version |-> "none"] ]  \* requirements given to verify_payment

Init ==
  /\ agents = <<>>
  /\ ledger = <<>>
  /\ pc = [r \in Reqs |-> "idle"]
  /\ req = [r \in Reqs |-> NoReq]
  /\ facilitator = [r \in Reqs |-> NoCall]
  /\ verdict = [r \in Reqs |-> NoVerdict]
  /\ body = [r \in Reqs |-> NoBody]
  /\ local = [r \in Reqs |-> NoLocal]
  /\ response = [r \in Reqs |-> NoResponse]
  /\ hist = [r \in Reqs |-> NoHist]

Gated == {"/register", "/search"}

\* Variant of requirements_of: the description carries the number of requests
\* answered so far.
requirements_of_counted(endpoint) ==
  LET answered == Cardinality({s \in Reqs : pc[s] = "done"})
  IN IF endpoint = "/register"
     THEN build_requirements(HOST \o "/register", REGISTER_PRICE, ToString(answered))
     ELSE build_requirements(HOST \o "/search", SEARCH_PRICE, ToString(answered))

\* Variant of requirements_of: both handlers build the /search requirements.
requirements_of_search_priced(endpoint) == search_requirements

requirements_of(endpoint) ==
  IF endpoint = "/register" THEN register_requirements ELSE search_requirements

\* Variant of amount_of: a rejected proof is recorded at the /search price
\* whatever the endpoint.
amount_of_search_only(endpoint) == SEARCH_AMOUNT

amount_of(endpoint) ==
  IF endpoint = "/register" THEN REGISTER_AMOUNT ELSE SEARCH_AMOUNT

\* ------------------------------------------------ gated handlers, common part
\* Lines 121-129 and 175-183: no X-PAYMENT value, the 402 challenge.
challenge_response(endpoint) ==
  [ status |-> 402,
    challenge |-> requirements_header(requirements_of(endpoint)),
    content |-> [error |-> "Payment required", price_usdc |-> amount_of(endpoint)] ]

invalid_response ==
  [ status |-> 402,
    challenge |-> NoHeader,
    content |-> [error |-> "Invalid or insufficient payment"] ]

error_response(code, detail) ==
  [status |-> code, challenge |-> NoHeader, content |-> [detail |-> detail]]

\* Variant of gated_challenge: the challenge is also written to the ledger.
gated_challenge_logged(r, endpoint, hdr) ==
  /\ pc[r] = "idle"
  /\ hdr \in {"absent", "empty"}
  /\ req' = [req EXCEPT ![r] = [endpoint |-> endpoint, hdr |-> hdr, q |-> <<>>]]
  /\ response' = [response EXCEPT ![r] = challenge_response(endpoint)]
  /\ ledger' = Append(ledger, [ endpoint |-> endpoint, payment_hash |-> "",
                                amount_usdc |-> 0, status |-> "invalid",
                                request |-> r ])
  /\ hist' = [hist EXCEPT ![r].logs = @ + 1]
  /\ pc' = [pc EXCEPT ![r] = "done"]
  /\ UNCHANGED <<agents, facilitator, verdict, body, local>>

gated_challenge(r, endpoint, hdr) ==
  /\ pc[r] = "idle"
  /\ no_payment_header(hdr)
  /\ req' = [req EXCEPT ![r] = [endpoint |-> endpoint, hdr |-> hdr, q |-> <<>>]]
  /\ response' = [response EXCEPT ![r] = challenge_response(endpoint)]
  /\ pc' = [pc EXCEPT ![r] = "done"]
  /\ UNCHANGED <<agents, ledger, facilitator, verdict, body, local, hist>>

\* Variant of gated_verify: the handler goes on whatever the verdict.
gated_verify_unchecked(r, endpoint, hdr, fac) ==
  /\ pc[r] = "idle"
  /\ hdr \in {"undecodable", "proof"}
  /\ req' = [req EXCEPT ![r] = [endpoint |-> endpoint, hdr |-> hdr, q |-> <<>>]]
  /\ facilitator' = [facilitator EXCEPT ![r] = fac]
  /\ verdict' = [verdict EXCEPT ![r] = verify_payment(hdr, fac)]
  /\ hist' = [hist EXCEPT ![r].verified = TRUE,
                          ![r].fac_calls = IF hdr = "proof" THEN 1 ELSE 0]
  /\ pc' = [pc EXCEPT ![r] = IF endpoint = "/register" THEN "body" ELSE "query"]
  /\ UNCHANGED <<agents, ledger, body, local, response>>

\* Variant of gated_verify: requests.Timeout is not caught and leaves the
\* handler as an unhandled error.
gated_verify_timeout_escapes(r, endpoint, hdr, fac) ==
  /\ pc[r] = "idle"
  /\ hdr \in {"undecodable", "proof"}
  /\ req' = [req EXCEPT ![r] = [endpoint |-> endpoint, hdr |-> hdr, q |-> <<>>]]
  /\ facilitator' = [facilitator EXCEPT ![r] = fac]
  /\ verdict' = [verdict EXCEPT ![r] = verify_payment(hdr, fac)]
  /\ hist' = [hist EXCEPT ![r].verified = TRUE,
                          ![r].fac_calls = IF hdr = "proof" THEN 1 ELSE 0]
  /\ IF fac.outcome = "timeout"
     THEN /\ pc' = [pc EXCEPT ![r] = "done"]
          /\ response' = [response EXCEPT ![r] =
                            error_response(500, "Internal Server Error")]
     ELSE /\ pc' = [pc EXCEPT ![r] =
                      IF ~verify_payment(hdr, fac).valid THEN "invalid"
                      ELSE IF endpoint = "/register" THEN "body" ELSE "query"]
          /\ response' = response
  /\ UNCHANGED <<agents, ledger, body, local>>

\* Lines 131-132 and 185-186: valid, tx_hash = verify_payment(...).
gated_verify(r, endpoint, hdr, fac) ==
  /\ pc[r] = "idle"
  /\ ~no_payment_header(hdr)
  /\ req' = [req EXCEPT ![r] = [endpoint |-> endpoint, hdr |-> hdr, q |-> <<>>]]
  /\ facilitator' = [facilitator EXCEPT ![r] = fac]
  /\ verdict' = [verdict EXCEPT ![r] = verify_payment(hdr, fac)]
  /\ hist' = [hist EXCEPT ![r].verified = TRUE,
                          ![r].fac_calls = IF facilitator_called(hdr) THEN 1 ELSE 0,
                          ![r].sent = requirements_of(endpoint)]
  /\ pc' = [pc EXCEPT ![r] =
              IF ~verify_payment(hdr, fac).valid THEN "invalid"
              ELSE IF endpoint = "/register" THEN "body" ELSE "query"]
  /\ UNCHANGED <<agents, ledger, body, local, response>>

\* Variant of gated_invalid: the rejection is answered but not recorded.
gated_invalid_unlogged(r, endpoint) ==
  /\ pc[r] = "invalid"
  /\ req[r].endpoint = endpoint
  /\ response' = [response EXCEPT ![r] = invalid_response]
  /\ pc' = [pc EXCEPT ![r] = "done"]
  /\ UNCHANGED <<agents, ledger, req, facilitator, verdict, body, local, hist>>

\* Lines 133-135 and 187-188: log_tx(endpoint, tx_hash, price, "invalid"), 402.
gated_invalid(r, endpoint) ==
  /\ pc[r] = "invalid"
  /\ req[r].endpoint = endpoint
  /\ ledger' = log_tx(ledger, endpoint, verdict[r].tx_hash, amount_of(endpoint),
                      "invalid", r)
  /\ response' = [response EXCEPT ![r] = invalid_response]
  /\ hist' = [hist EXCEPT ![r].logs = @ + 1]
  /\ pc' = [pc EXCEPT ![r] = "done"]
  /\ UNCHANGED <<agents, req, facilitator, verdict, body, local>>

\* The facilitator outcomes a header can meet: none when it does not decode.
outcomes_for(hdr) ==
  IF facilitator_called(hdr) THEN FacilitatorOutcomes ELSE {NoCall}

\* ------------------------------------------------------------ POST /register
register_agent_challenge(r) ==
  \E hdr \in PaymentHeaders : gated_challenge(r, "/register", hdr)

register_agent_verify(r) ==
  \E hdr \in PaymentHeaders : \E fac \in outcomes_for(hdr) :
    gated_verify(r, "/register", hdr, fac)

register_agent_invalid(r) == gated_invalid(r, "/register")

\* body.get(key, "")
body_get(b, key) == IF b[key].t = "absent" THEN Str(<<>>) ELSE b[key]

\* Lines 138-141 raise (JSON error, body.get on a non-object, .strip() on a
\* non-string) exactly for these bodies.
body_raises(b) ==
  \/ b.shape # "object"
  \/ \E key \in {"name", "description", "payment_endpoint"} :
       body_get(b, key).t # "str"

\* Variant of fields_missing: only the name is required.
fields_missing_name_only(name, description, payment_endpoint) == name = <<>>

\* Line 143: not all([name, description, payment_endpoint])
fields_missing(name, description, payment_endpoint) ==
  name = <<>> \/ description = <<>> \/ payment_endpoint = <<>>

\* Lines 137-145, and the handlers at 160-161 and 165-167.
register_agent_body(r) ==
  /\ pc[r] = "body"
  /\ \E b \in Bodies :
       /\ body' = [body EXCEPT ![r] = b]
       /\ IF body_raises(b)
          THEN /\ response' = [response EXCEPT ![r] =
                                 error_response(500, "Internal server error")]
               /\ pc' = [pc EXCEPT ![r] = "done"]
               /\ local' = local
          ELSE LET name == strip(body_get(b, "name").v)
                   description == strip(body_get(b, "description").v)
                   payment_endpoint == strip(body_get(b, "payment_endpoint").v)
               IN /\ local' = [local EXCEPT ![r].name = name,
                                            ![r].description = description,
                                            ![r].payment_endpoint = payment_endpoint]
                  /\ IF fields_missing(name, description, payment_endpoint)
                     THEN /\ response' = [response EXCEPT ![r] = error_response(400,
                                 "Required fields: name, description, payment_endpoint")]
                          /\ pc' = [pc EXCEPT ![r] = "done"]
                     ELSE /\ response' = response
                          /\ pc' = [pc EXCEPT ![r] = "insert"]
  /\ UNCHANGED <<agents, ledger, req, facilitator, verdict, hist>>

\* Lines 147-153: the INSERT and the commit of its connection, or the
\* IntegrityError that sends control to line 162.
register_agent_insert(r) ==
  /\ pc[r] = "insert"
  /\ IF name_taken(agents, local[r].name)
     THEN /\ agents' = agents
          /\ local' = local
          /\ hist' = [hist EXCEPT ![r].ops = @ + 1]
          /\ pc' = [pc EXCEPT ![r] = "duplicate"]
     ELSE /\ agents' = insert_agent(agents, local[r].name, local[r].description,
                                    local[r].payment_endpoint, r)
          /\ local' = [local EXCEPT ![r].agent_id = Len(agents) + 1]
          /\ hist' = [hist EXCEPT ![r].ops = @ + 1]
          /\ pc' = [pc EXCEPT ![r] = "success"]
  /\ UNCHANGED <<ledger, req, facilitator, verdict, body, response>>

\* Lines 155-158.
register_agent_success(r) ==
  /\ pc[r] = "success"
  /\ req[r].endpoint = "/register"
  /\ ledger' = log_tx(ledger, "/register", verdict[r].tx_hash, REGISTER_AMOUNT,
                      "success", r)
  /\ response' = [response EXCEPT ![r] =
       [ status |-> 200, challenge |-> NoHeader,
         content |-> [ success |-> TRUE, agent_id |-> local[r].agent_id,
                       name |-> local[r].name, tx |-> verdict[r].tx_hash ] ]]
  /\ hist' = [hist EXCEPT ![r].logs = @ + 1]
  /\ pc' = [pc EXCEPT ![r] = "done"]
  /\ UNCHANGED <<agents, req, facilitator, verdict, body, local>>

\* Variant of register_agent_duplicate: the conflict is answered, not recorded.
register_agent_duplicate_unlogged(r) ==
  /\ pc[r] = "duplicate"
  /\ response' = [response EXCEPT ![r] =
                    error_response(409, "Agent name already registered")]
  /\ pc' = [pc EXCEPT ![r] = "done"]
  /\ UNCHANGED <<agents, ledger, req, facilitator, verdict, body, local, hist>>

\* Lines 162-164.
register_agent_duplicate(r) ==
  /\ pc[r] = "duplicate"
  /\ ledger' = log_tx(ledger, "/register", verdict[r].tx_hash, REGISTER_AMOUNT,
                      "duplicate", r)
  /\ response' = [response EXCEPT ![r] =
                    error_response(409, "Agent name already registered")]
  /\ hist' = [hist EXCEPT ![r].logs = @ + 1]
  /\ pc' = [pc EXCEPT ![r] = "done"]
  /\ UNCHANGED <<agents, req, facilitator, verdict, body, local>>

\* -------------------------------------------------------------- GET /search
search_agents_challenge(r) ==
  \E hdr \in PaymentHeaders : gated_challenge(r, "/search", hdr)

search_agents_verify(r) ==
  \E hdr \in PaymentHeaders : \E fac \in outcomes_for(hdr) :
    gated_verify(r, "/search", hdr, fac)

search_agents_invalid(r) == gated_invalid(r, "/search")

\* Lines 190-202: the SELECT, in a connection of its own.
search_agents_query(r) ==
  /\ pc[r] = "query"
  /\ \E q \in Queries :
       /\ req' = [req EXCEPT ![r].q = q]
       /\ local' = [local EXCEPT ![r].rows = select_agents(agents, q)]
  /\ hist' = [hist EXCEPT ![r].ops = @ + 1]
  /\ pc' = [pc EXCEPT ![r] = "success"]
  /\ UNCHANGED <<agents, ledger, facilitator, verdict, body, response>>

\* Lines 203-205.
search_agents_success(r) ==
  /\ pc[r] = "success"
  /\ req[r].endpoint = "/search"
  /\ ledger' = log_tx(ledger, "/search", verdict[r].tx_hash, SEARCH_AMOUNT,
                      "success", r)
  /\ response' = [response EXCEPT ![r] =
       [ status |-> 200, challenge |-> NoHeader,
         content |-> [ results |-> local[r].rows, count |-> Len(local[r].rows),
                       query |-> req[r].q ] ]]
  /\ hist' = [hist EXCEPT ![r].logs = @ + 1]
  /\ pc' = [pc EXCEPT ![r] = "done"]
  /\ UNCHANGED <<agents, req, facilitator, verdict, body, local>>

\* -------------------------------------------------------------- GET /health
\* Line 211: SELECT COUNT(*) FROM agents.  The connection is in autocommit
\* mode for reads, so the two SELECTs are two reads of the store.
health_agents(r) ==
  /\ pc[r] = "idle"
  /\ req' = [req EXCEPT ![r] = [endpoint |-> "/health", hdr |-> "absent", q |-> <<>>]]
  /\ local' = [local EXCEPT ![r].agent_count = Len(agents)]
  /\ pc' = [pc EXCEPT ![r] = "health_tx"]
  /\ UNCHANGED <<agents, ledger, facilitator, verdict, body, response, hist>>

\* Lines 212-224.
health(r) ==
  /\ pc[r] = "health_tx"
  /\ response' = [response EXCEPT ![r] =
       [ status |-> 200, challenge |-> NoHeader,
         content |-> [ status |-> "operational",
                       agents_registered |-> local[r].agent_count,
                       total_transactions |-> count_success(ledger),
                       total_revenue_usdc |-> sum_success(ledger),
                       wallet |-> WALLET_ADDRESS,
                       network |-> "Base (chainId " \o NETWORK_ID \o ")" ] ]]
  /\ pc' = [pc EXCEPT ![r] = "done"]
  /\ UNCHANGED <<agents, ledger, req, facilitator, verdict, body, local, hist>>

\* ------------------------------------------------------------------- GET /
root(r) ==
  /\ pc[r] = "idle"
  /\ req' = [req EXCEPT ![r] = [endpoint |-> "/", hdr |-> "absent", q |-> <<>>]]
  /\ response' = [response EXCEPT ![r] =
       [ status |-> 200, challenge |-> NoHeader,
         content |-> [service |-> "AI Agent Directory", wallet |-> WALLET_ADDRESS] ]]
  /\ pc' = [pc EXCEPT ![r] = "done"]
  /\ UNCHANGED <<agents, ledger, facilitator, verdict, body, local, hist>>

\* ------------------------------------------------------------ specification
Next ==
  \E r \in Reqs :
    \/ register_agent_challenge(r)
    \/ register_agent_verify(r)
    \/ register_agent_invalid(r)
    \/ register_agent_body(r)
    \/ register_agent_insert(r)
    \/ register_agent_success(r)
    \/ register_agent_duplicate(r)
    \/ search_agents_challenge(r)
    \/ search_agents_verify(r)
    \/ search_agents_invalid(r)
    \/ search_agents_query(r)
    \/ search_agents_success(r)
    \/ health_agents(r)
    \/ health(r)
    \/ root(r)

Spec == Init /\ [][Next]_vars

\* Requests served one at a time, in the order of their numbers: the runs
\* in which one request is answered before the next arrives.
in_turn(r) ==
  \A s \in Reqs \ {r} : IF s < r THEN pc[s] = "done" ELSE pc[s] = "idle"

NextSeq ==
  \E r \in Reqs :
    \/ in_turn(r) /\ register_agent_challenge(r)
    \/ in_turn(r) /\ register_agent_verify(r)
    \/ in_turn(r) /\ register_agent_invalid(r)
    \/ in_turn(r) /\ register_agent_body(r)
    \/ in_turn(r) /\ register_agent_insert(r)
    \/ in_turn(r) /\ register_agent_success(r)
    \/ in_turn(r) /\ register_agent_duplicate(r)
    \/ in_turn(r) /\ search_agents_challenge(r)
    \/ in_turn(r) /\ search_agents_verify(r)
    \/ in_turn(r) /\ search_agents_invalid(r)
    \/ in_turn(r) /\ search_agents_query(r)
    \/ in_turn(r) /\ search_agents_success(r)
    \/ in_turn(r) /\ health_agents(r)
    \/ in_turn(r) /\ health(r)
    \/ in_turn(r) /\ root(r)

SpecSeq == Init /\ [][NextSeq]_vars

\* The steps a handler takes once its request has arrived.  The server runs
\* every handler it has started until it returns: the store calls return and
\* the one network call is bounded by its timeout (line 92).  Arrivals are not
\* forced.
proceed(r) ==
  \/ register_agent_invalid(r)
  \/ register_agent_body(r)
  \/ register_agent_insert(r)
  \/ register_agent_success(r)
  \/ register_agent_duplicate(r)
  \/ search_agents_invalid(r)
  \/ search_agents_query(r)
  \/ search_agents_success(r)
  \/ health(r)

SpecLive == Spec /\ \A r \in Reqs : WF_vars(proceed(r))

\* ================================================================ properties
\* Vocabulary of the properties.  None of it is used by the handlers above.
Done(r) == pc[r] = "done"
IsGated(r) == req[r].endpoint \in Gated
CarriedProof(r) == req[r].hdr \in {"undecodable", "proof"}
Approved(r) == hist[r].verified /\ verdict[r].valid
Rejected(r) == hist[r].verified /\ ~verdict[r].valid
RecordsOf(r) == {i \in 1..Len(ledger) : ledger[i].request = r}
EntriesOf(r) == {i \in 1..Len(agents) : agents[i].request = r}
EntriesNamed(n) == {i \in 1..Len(agents) : agents[i].name = n}
OneRecord(r, status) ==
  /\ Cardinality(RecordsOf(r)) = 1
  /\ \A i \in RecordsOf(r) : ledger[i].status = status
NoBusiness(r) == hist[r].ops = 0 /\ EntriesOf(r) = {}

\* Empty after trimming: every character is whitespace.
Blank(s) == \A i \in 1..Len(s) : s[i] \in Whitespace
\* A body field that is missing or empty after trimming.
MissingField(f) == f.t = "absent" \/ (f.t = "str" /\ Blank(f.v))
\* A body field that is a string with something left after trimming.
GoodField(f) == f.t = "str" /\ ~Blank(f.v)
BodyFields(b) == {b.name, b.description, b.payment_endpoint}
CompleteBody(b) == b.shape = "object" /\ \A f \in BodyFields(b) : GoodField(f)
\* name with the whitespace at both ends removed, said without strip()
TrimmedTo(s, n) ==
  \E i, j \in 0..Len(s) :
    /\ i + Len(n) + j = Len(s)
    /\ n = SubSeq(s, i + 1, i + Len(n))
    /\ Blank(SubSeq(s, 1, i)) /\ Blank(SubSeq(s, Len(s) - j + 1, Len(s)))
    /\ n # <<>> /\ n[1] \notin Whitespace /\ n[Len(n)] \notin Whitespace

\* C1 (as claimed): every answered /register or /search request that carried
\* a proof header appended exactly one ledger record and every one answered
\* without proof appended none; so with no request in flight the ledger has as
\* many records as there are answered proof-carrying requests.
C1_OneRecordPerProofResponse ==
  /\ \A r \in Reqs : (Done(r) /\ IsGated(r)) =>
        Cardinality(RecordsOf(r)) = (IF CarriedProof(r) THEN 1 ELSE 0)
  /\ (\A r \in Reqs : pc[r] \in {"idle", "done"}) =>
        Len(ledger) = Cardinality({r \in Reqs : Done(r) /\ IsGated(r) /\ CarriedProof(r)})

\* C2 (as claimed): every answered gated request with an approved proof ran
\* its business operation exactly once and appended exactly one record, with
\* status success, or duplicate when the insert hit the name conflict.
C2_ApprovedRunsAndLogsOnce ==
  \A r \in Reqs : (Done(r) /\ IsGated(r) /\ Approved(r)) =>
     /\ hist[r].ops = 1
     /\ hist[r].logs = 1
     /\ OneRecord(r, IF req[r].endpoint = "/register" /\ EntriesOf(r) = {}
                     THEN "duplicate" ELSE "success")

\* C2 (amended): the same, for approved /search requests and for approved
\* /register requests whose body is a JSON object with name, description and
\* payment_endpoint all strings that are non-empty after trimming.
C2_ApprovedCompleteRunsAndLogsOnce ==
  \A r \in Reqs :
     ( /\ Done(r) /\ IsGated(r) /\ Approved(r)
       /\ (req[r].endpoint = "/register" => CompleteBody(body[r])) ) =>
     /\ hist[r].ops = 1
     /\ hist[r].logs = 1
     /\ Cardinality(EntriesOf(r)) <= 1
     /\ OneRecord(r, IF req[r].endpoint = "/register" /\ EntriesOf(r) = {}
                     THEN "duplicate" ELSE "success")
     /\ response[r].status = (IF req[r].endpoint = "/register" /\ EntriesOf(r) = {}
                              THEN 409 ELSE 200)

C2_Witness ==
  \E r, s \in Reqs :
     /\ Done(r) /\ req[r].endpoint = "/register" /\ OneRecord(r, "duplicate")
     /\ Done(s) /\ req[s].endpoint = "/register" /\ OneRecord(s, "success")

\* C3: an answered gated request whose proof verification marked invalid
\* got 402, appended exactly one record, of status invalid, and ran neither
\* the agent insert nor the search query: no directory entry is its own.
C3_InvalidProofRejected ==
  \A r \in Reqs : (Done(r) /\ IsGated(r) /\ Rejected(r)) =>
     /\ response[r].status = 402
     /\ hist[r].logs = 1
     /\ OneRecord(r, "invalid")
     /\ NoBusiness(r)

C3_Witness ==
  \E r, s \in Reqs :
     /\ Done(r) /\ req[r].endpoint = "/register" /\ Rejected(r)
     /\ facilitator[r].outcome = "object" /\ OneRecord(r, "invalid")
     /\ Done(s) /\ req[s].endpoint = "/search" /\ Rejected(s)
     /\ OneRecord(s, "invalid")

\* C4: an answered gated request without a proof header got 402 with the
\* X-PAYMENT-REQUIREMENTS challenge of its endpoint, never called the verifier
\* or the facilitator, appended no ledger record and made no directory entry.
C4_NoProofChallenged ==
  \A r \in Reqs : (Done(r) /\ IsGated(r) /\ req[r].hdr = "absent") =>
     /\ response[r].status = 402
     /\ response[r].challenge # NoHeader
     /\ response[r].challenge.of.of.resource = HOST \o req[r].endpoint
     /\ ~hist[r].verified /\ hist[r].fac_calls = 0
     /\ hist[r].logs = 0 /\ RecordsOf(r) = {}
     /\ NoBusiness(r)

C4_Witness ==
  \E r, s \in Reqs :
     /\ Done(r) /\ req[r].endpoint = "/register" /\ req[r].hdr = "absent"
     /\ Done(s) /\ req[s].endpoint = "/search" /\ req[s].hdr = "absent"
     /\ response[r].status = 402 /\ response[s].status = 402

\* C5: at every moment of every gated request, a ledger write by the request
\* implies that its proof was submitted and verify_payment has returned, and
\* an executed insert or query implies that verification returned valid.
C5_VerifyBeforeLedgerAndOperation ==
  \A r \in Reqs :
     /\ (hist[r].logs > 0 \/ RecordsOf(r) # {}) =>
           (hist[r].verified /\ CarriedProof(r))
     /\ (hist[r].ops > 0 \/ EntriesOf(r) # {} \/ pc[r] \in {"insert", "query"}) =>
           Approved(r)

C5_Witness ==
  \E r, s \in Reqs :
     /\ EntriesOf(r) # {} /\ RecordsOf(r) = {} /\ Approved(r)
     /\ RecordsOf(s) # {} /\ Rejected(s)

\* C6: once verify_payment has returned for a request whose header did not
\* decode, or whose facilitator call raised, answered with a status other than
\* 200 or sent a body that is not a JSON object, the verdict is (False, "") and
\* the request runs no business operation and records no success.
VerificationFailed(r) ==
  \/ req[r].hdr = "undecodable"
  \/ facilitator[r].outcome \in
       {"raises", "timeout", "non200", "notjson", "nonobject"}

C7_EntryHasItsLedgerRecord ==
  \A i \in 1..Len(agents) :
     \E j \in 1..Len(ledger) :
        ledger[j].request = agents[i].request /\ ledger[j].status = "success"

\* The requests that reached the INSERT with name n.
Registering(n) ==
  {r \in Reqs : /\ req[r].endpoint = "/register"
                /\ pc[r] \in {"insert", "success", "duplicate", "done"}
                /\ Approved(r) /\ CompleteBody(body[r])
                /\ TrimmedTo(body[r].name.v, n)}

Names == {<<"a">>, <<"b">>}

\* C8: when exactly two approved /register requests with complete bodies for
\* the same name have both been answered, however their steps interleaved,
\* one got 200 and made the entry, the other got 409, the ledger holds one
\* success and one duplicate record for them, and one entry has that name.
C8_ConcurrentDuplicates ==
  \A n \in Names : \A r, s \in Reqs :
     (r # s /\ Registering(n) = {r, s} /\ Done(r) /\ Done(s)) =>
        /\ {response[r].status, response[s].status} = {200, 409}
        /\ \A t \in {r, s} :
              /\ OneRecord(t, IF response[t].status = 200 THEN "success"
                              ELSE "duplicate")
              /\ Cardinality(EntriesOf(t)) = (IF response[t].status = 200 THEN 1 ELSE 0)
        /\ Cardinality(EntriesNamed(n)) = 1

\* Both answered, and the loser's duplicate record was written before the
\* winner's success record: the two requests overlapped.
C8_Witness ==
  \E n \in Names : \E r, s \in Reqs :
     /\ r # s /\ Registering(n) = {r, s} /\ Done(r) /\ Done(s)
     /\ \E i, j \in 1..Len(ledger) :
          /\ i < j
          /\ ledger[i].request = s /\ ledger[i].status = "duplicate"
          /\ ledger[j].request = r /\ ledger[j].status = "success"

\* C9: in runs that serve requests one after the other, when the first two
\* approved /register requests with complete bodies for a name have been
\* answered, the first got 200 and a success record, the second got 409 and a
\* duplicate record, and the directory has exactly one entry with that name:
\* the one the first request made, with the first request's fields.
C9_SequentialDuplicate ==
  \A n \in Names : \A r, s \in Reqs :
     (r < s /\ Registering(n) = {r, s} /\ Done(r) /\ Done(s)) =>
        /\ response[r].status = 200 /\ OneRecord(r, "success")
        /\ response[s].status = 409 /\ OneRecord(s, "duplicate")
        /\ EntriesOf(s) = {}
        /\ Cardinality(EntriesNamed(n)) = 1
        /\ \A i \in EntriesNamed(n) :
              /\ agents[i].request = r
              /\ TrimmedTo(body[r].description.v, agents[i].description)
              /\ TrimmedTo(body[r].payment_endpoint.v, agents[i].payment_endpoint)

\* The second request asked for another description than the first.
C9_Witness ==
  \E n \in Names : \E r, s \in Reqs :
     /\ r < s /\ Registering(n) = {r, s} /\ Done(r) /\ Done(s)
     /\ body[r].description # body[s].description
     /\ body[r].name # body[s].name
     /\ response[s].status = 409

\* C10: an approved /register request whose body is a JSON object with
\* string or missing fields, one of name, description and payment_endpoint
\* missing or empty after trimming, is answered 400 and inserts no entry,
\* whatever its settlement reference and whatever the store holds.
IncompleteBody(b) ==
  /\ b.shape = "object"
  /\ \A f \in BodyFields(b) : f.t \in {"str", "absent"}
  /\ \E f \in BodyFields(b) : MissingField(f)

TimedOut(r) == hist[r].verified /\ facilitator[r].outcome = "timeout"

C11_TimeoutAnswered ==
  /\ [](\A r \in Reqs : TimedOut(r) =>
          /\ verdict[r] = [valid |-> FALSE, tx_hash |-> ""]
          /\ NoBusiness(r)
          /\ pc[r] \in {"invalid", "done"})
  /\ \A r \in Reqs :
       TimedOut(r) ~>
         ( /\ Done(r)
           /\ response[r].status = 402
           /\ response[r].content = [error |-> "Invalid or insufficient payment"]
           /\ OneRecord(r, "invalid")
           /\ NoBusiness(r) )

C11_Witness ==
  \E r, s \in Reqs :
     /\ TimedOut(r) /\ req[r].endpoint = "/search" /\ Done(r)
     /\ response[r].status = 402 /\ OneRecord(r, "invalid")
     /\ TimedOut(s) /\ req[s].endpoint = "/register" /\ pc[s] = "invalid"

\* C12: the ledger is append-only: every step of every handler, in every
\* interleaving, either leaves the ledger as it is or appends exactly one
\* record to it, and that record is written by log_tx for the request taking
\* the step; no record already written changes or disappears.
C12_LedgerAppendOnly ==
  [][ \/ ledger' = ledger
      \/ /\ Len(ledger') = Len(ledger) + 1
         /\ SubSeq(ledger', 1, Len(ledger)) = ledger
         /\ \E r \in Reqs :
              /\ hist'[r].logs = hist[r].logs + 1
              /\ ledger'[Len(ledger')].request = r ]_vars

C12_Witness ==
  /\ Len(ledger) = 2
  /\ ledger[1].endpoint = ledger[2].endpoint
  /\ ledger[1].status = "success" /\ ledger[2].status = "duplicate"

\* C13: any two answered requests to the same gated endpoint that came
\* without a proof header, whatever was served before or between them, got the
\* same PaymentRequirements under the same challenge header value, and neither
\* appended a ledger record.
Challenged(r) == Done(r) /\ IsGated(r) /\ req[r].hdr = "absent"

Fold(c) ==
  CASE c = "A" -> "a" [] c = "B" -> "b" [] c = "R" -> "r"
    [] c = "U" -> "u" [] c = "X" -> "x" [] OTHER -> c
Contains(s, q) ==
  \E i \in 0..(Len(s) - Len(q)) :
     \A k \in 1..Len(q) : Fold(s[i + k]) = Fold(q[k])
Matches(row, q) ==
  q = <<>> \/ Contains(row.name, q) \/ Contains(row.description, q)

\* C14 (as claimed): the SELECT of an approved /search request returns every
\* directory entry when q is empty and otherwise exactly the entries whose
\* name or description contains q; the response's count is the number of
\* results; no step of a /search request changes the directory.
C14_SearchExactSubstring ==
  [][ \A r \in Reqs :
        /\ (pc[r] = "query" /\ pc'[r] = "success") =>
              /\ { row.id : row \in {local'[r].rows[i] : i \in 1..Len(local'[r].rows)} }
                   = { agents[i].id : i \in {j \in 1..Len(agents) :
                                               Matches(agents[j], req'[r].q)} }
              /\ Len(local'[r].rows)
                   = Cardinality({j \in 1..Len(agents) : Matches(agents[j], req'[r].q)})
        /\ (pc[r] = "success" /\ pc'[r] = "done" /\ req[r].endpoint = "/search") =>
              /\ response'[r].content.results = local[r].rows
              /\ response'[r].content.count = Len(local[r].rows)
        /\ (req'[r].endpoint = "/search" /\ pc'[r] # pc[r]) => agents' = agents ]_vars

\* C15: the requirements a handler gives to verify_payment for a
\* proof-carrying request name the fixed host plus the request's own path as
\* resource and "500000" (/register) or "10000" (/search) as maxAmountRequired,
\* and are the very requirements any 402 challenge of that endpoint carried.
C15_ForwardedRequirementsMatchChallenge ==
  \A r \in Reqs : (IsGated(r) /\ hist[r].verified) =>
     /\ hist[r].sent.resource = HOST \o req[r].endpoint
     /\ hist[r].sent.maxAmountRequired =
           (IF req[r].endpoint = "/register" THEN "500000" ELSE "10000")
     /\ hist[r].sent.payTo = WALLET_ADDRESS
     /\ \A s \in Reqs :
           (Done(s) /\ req[s].endpoint = req[r].endpoint /\ ~hist[s].verified) =>
              /\ response[s].challenge.encoding = "base64"
              /\ response[s].challenge.of.of = hist[r].sent

C15_Witness ==
  \E r, s \in Reqs :
     /\ req[r].endpoint = "/register" /\ hist[r].verified /\ hist[r].fac_calls = 1
     /\ req[s].endpoint = "/register" /\ Done(s) /\ ~hist[s].verified
     /\ response[s].challenge.of.of.maxAmountRequired = "500000"

\* C16: when the facilitator answered 200 with a JSON object, the verdict is
\* the body's isValid (False when absent) and the reference is the body's
\* txHash ("unverified" when absent); and every ledger record of a verified
\* request, invalid ones included, carries the reference of its verdict.
C16_VerdictVerbatimAndRecorded ==
  \A r \in Reqs : hist[r].verified =>
     /\ facilitator[r].outcome = "object" =>
          /\ verdict[r].valid = (facilitator[r].isValid = "true")
          /\ verdict[r].tx_hash = (IF facilitator[r].txHash = "absent"
                                   THEN "unverified" ELSE facilitator[r].txHash)
     /\ \A i \in RecordsOf(r) : ledger[i].payment_hash = verdict[r].tx_hash
     /\ Done(r) /\ (Rejected(r) \/ response[r].status \in {200, 409}) =>
          Cardinality(RecordsOf(r)) = 1

C16_Witness ==
  \E r, s \in Reqs :
     /\ Done(r) /\ facilitator[r].outcome = "object"
     /\ facilitator[r].isValid = "false" /\ facilitator[r].txHash = "0xabc"
     /\ \E i \in RecordsOf(r) :
          ledger[i].status = "invalid" /\ ledger[i].payment_hash = "0xabc"
     /\ Done(s) /\ facilitator[s].outcome = "object"
     /\ facilitator[s].isValid = "true" /\ facilitator[s].txHash = "absent"
     /\ \E i \in RecordsOf(s) :
          ledger[i].status = "success" /\ ledger[i].payment_hash = "unverified"

\* C17: a /health request is never verified and never writes: its two
\* steps leave the directory and the ledger as they are; agents_registered is
\* the number of directory entries when the first SELECT ran and
\* total_transactions the number of ledger records of status success when the
\* second ran, records of status invalid or duplicate not counted.
C17_HealthReadsOnly ==
  [][ \A r \in Reqs :
        /\ (pc[r] = "idle" /\ pc'[r] = "health_tx") =>
              /\ local'[r].agent_count = Len(agents)
              /\ agents' = agents /\ ledger' = ledger
        /\ (pc[r] = "health_tx" /\ pc'[r] = "done") =>
              /\ response'[r].status = 200
              /\ response'[r].content.agents_registered = local[r].agent_count
              /\ response'[r].content.total_transactions =
                    Cardinality({i \in 1..Len(ledger) : ledger[i].status = "success"})
              /\ agents' = agents /\ ledger' = ledger
        /\ req'[r].endpoint = "/health" =>
              /\ ~hist'[r].verified /\ hist'[r].fac_calls = 0 /\ hist'[r].logs = 0
              /\ \A i \in 1..Len(ledger') : ledger'[i].request # r
              /\ \A i \in 1..Len(agents') : agents'[i].request # r ]_vars

\* A report made with an entry, its success record and no other record.
C17_Witness ==
  \E r \in Reqs :
     /\ Done(r) /\ req[r].endpoint = "/health"
     /\ response[r].content.agents_registered = 1
     /\ response[r].content.total_transactions = 1

\* C18: in every store state each directory entry has a name, a description
\* and a payment_endpoint that are non-empty and neither begin nor end with
\* whitespace, no two entries have the same name, and each entry was inserted
\* by a /register request whose proof had been verified valid, from that
\* request's body.
Trimmed(s) == s # <<>> /\ s[1] \notin Whitespace /\ s[Len(s)] \notin Whitespace

C18_EntriesWellFormed ==
  /\ \A i \in 1..Len(agents) :
        /\ Trimmed(agents[i].name)
        /\ Trimmed(agents[i].description)
        /\ Trimmed(agents[i].payment_endpoint)
        /\ agents[i].id = i
        /\ LET r == agents[i].request
           IN /\ req[r].endpoint = "/register"
              /\ Approved(r)
              /\ CompleteBody(body[r])
              /\ TrimmedTo(body[r].name.v, agents[i].name)
  /\ \A i, j \in 1..Len(agents) : agents[i].name = agents[j].name => i = j

C18_Witness ==
  /\ Len(agents) = 2
  /\ \E i \in 1..2 : body[agents[i].request].name.v # agents[i].name

\* C19: in every store state each ledger record is a /register record of
\* amount 0.50 or a /search record of amount 0.01, whatever its status; its
\* status is invalid, success or duplicate, and duplicate only on /register.
C19_LedgerRecordsWellFormed ==
  \A i \in 1..Len(ledger) :
     /\ \/ ledger[i].endpoint = "/register" /\ ledger[i].amount_usdc = 50
        \/ ledger[i].endpoint = "/search" /\ ledger[i].amount_usdc = 1
     /\ ledger[i].status \in {"invalid", "success", "duplicate"}
     /\ ledger[i].status = "duplicate" => ledger[i].endpoint = "/register"
     /\ ledger[i].endpoint = req[ledger[i].request].endpoint

C19_Witness ==
  /\ Len(ledger) = 2
  /\ ledger[1].endpoint = "/register" /\ ledger[1].status = "invalid"
  /\ ledger[1].amount_usdc = 50
  /\ ledger[2].endpoint = "/search" /\ ledger[2].status = "success"
  /\ ledger[2].amount_usdc = 1

====
